---- MODULE Spec2Model ----
(***************************************************************************)
(* A model of the proof-of-work ledger node of app/blockchain_server.py:   *)
(* the Block and BlockChain classes, the request handlers that drive them  *)
(* and the consensus / chain-reconstruction helpers.                       *)
(*                                                                         *)
(* Data representation.  Every Python string or number that ends up in a   *)
(* hash pre-image is a sequence of integers: the string "0" is <<0>>, a    *)
(* float n is Float(n), and a hex digest is the sequence Sha256 returns.   *)
(* Sha256 is modelled as a collision-free digest: Difficulty leading       *)
(* digits that depend on the whole pre-image, followed by the pre-image.   *)
(***************************************************************************)
EXTENDS Integers, Sequences, FiniteSets, TLC

\* ---------------------------------------------------------------- bounds
MaxChain == 2
MaxRecords == 2
MaxPending == MaxRecords
MaxObjs == 2
NumThreads == 2
MaxValidate == 3
MaxCalls == 2
HashMod == 4

\* ------------------------------------------------------- program constants
Difficulty == 4

Threads == 1..NumThreads
PeerAddrs == {"p1", "p2"}

\* ------------------------------------------------------------ plain values
Sentinel == <<0>>
Float(n) == <<9, n>>
ImportTime == Float(1)
PeerTime == Float(2)

RECURSIVE SumTo(_, _)
SumTo(s, n) == IF n = 0 THEN 0 ELSE s[n] + SumTo(s, n - 1)

SumSeq(s) == SumTo(s, Len(s))

Last(s) == s[Len(s)]

\* ------------------------------------------------------------------- Block
\* json.dumps(info, sort_keys=True): content, index, nonce, previous_hash,
\* timestamp, each value delimited so that the encoding is injective.
JsonDumps(info) ==
    <<Len(info.content)>> \o info.content \o <<info.index, info.nonce>>
        \o <<Len(info.previous_hash)>> \o info.previous_hash
        \o <<Len(info.timestamp)>> \o info.timestamp

Digits(m) == [k \in 1..Difficulty |-> (m \div (2 ^ (k - 1))) % 2]

Sha256(s) == Digits(SumSeq(s) % HashMod) \o s

StartsWithZeros(h, d) == Len(h) >= d /\ \A k \in 1..d : h[k] = 0

compute_hash(b) ==
    Sha256(JsonDumps([index |-> b.index, content |-> b.content,
                      previous_hash |-> b.previous_hash,
                      timestamp |-> b.timestamp, nonce |-> b.nonce]))

\* Block.__init__: the nonce and hashcode arguments are ignored.  content_ref
\* is the identity of the content list: 0 for a list of its own, o > 0 when
\* it is the very list object that BlockChain o holds as unconfirmed_data.
Block(index, content, previous_hash, timestamp, content_ref) ==
    LET b == [index |-> index, content |-> content,
              previous_hash |-> previous_hash, timestamp |-> timestamp,
              nonce |-> 0, hashcode |-> <<>>, content_ref |-> content_ref]
    IN  [b EXCEPT !.hashcode = compute_hash(b)]

\* one iteration of the loop of Block.proof_of_work
pow_step(b) ==
    LET n == [b EXCEPT !.nonce = b.nonce + 1]
    IN  [n EXCEPT !.hashcode = compute_hash(n)]

RECURSIVE proof_of_work(_, _)
proof_of_work(b, difficulty) ==
    IF StartsWithZeros(b.hashcode, difficulty) THEN b
    ELSE proof_of_work(pow_step(b), difficulty)

\* The fields of a block, without the identity of its content list.
Fields(b) == [index |-> b.index, content |-> b.content,
              previous_hash |-> b.previous_hash, timestamp |-> b.timestamp,
              nonce |-> b.nonce, hashcode |-> b.hashcode]

NoBlock == Block(0 - 1, <<>>, <<>>, <<>>, 0)

\* -------------------------------------------------------------- BlockChain
\* BlockChain._generate_genesis_block
GenesisBlock(timestamp) == proof_of_work(Block(0, <<>>, Sentinel, timestamp, 0), Difficulty)

\* BlockChain.__init__
NewBlockChain ==
    [kind |-> "BlockChain", chain |-> <<GenesisBlock(ImportTime)>>, unconfirmed_data |-> <<>>]

last_block(bc) == Last(bc.chain)

\* mutant of is_valid_proof: the claimed hash is not compared with the hash
\* of the block
is_valid_proof_prefix_only(block, block_hash) ==
    StartsWithZeros(block_hash, Difficulty)

is_valid_proof(block, block_hash) ==
    /\ StartsWithZeros(block_hash, Difficulty)
    /\ block_hash = compute_hash(block)

\* mutant of add_block: the test of previous_hash against the tip is missing
add_block_no_link(bc, block, proof) ==
    IF ~(StartsWithZeros(proof, Difficulty) /\ proof = compute_hash(block))
    THEN [bc |-> bc, ret |-> FALSE]
    ELSE [bc |-> [bc EXCEPT !.chain = Append(bc.chain, [block EXCEPT !.hashcode = proof])],
          ret |-> TRUE]

\* BlockChain.add_block: the ledger after the call and the value returned
add_block(bc, block, proof) ==
    IF last_block(bc).hashcode # block.previous_hash
    THEN [bc |-> bc, ret |-> FALSE]
    ELSE IF ~is_valid_proof(block, proof)
    THEN [bc |-> bc, ret |-> FALSE]
    ELSE [bc |-> [bc EXCEPT !.chain = Append(bc.chain, [block EXCEPT !.hashcode = proof])],
          ret |-> TRUE]

\* One call of add_block as the history variable records it.
AddCall(caller, bc, block, proof) ==
    LET r == add_block(bc, block, proof)
    IN  [caller |-> caller, block |-> Fields(block), proof |-> proof,
         chain_before |-> bc.chain, pending_before |-> bc.unconfirmed_data,
         ret |-> r.ret,
         chain_after |-> r.bc.chain, pending_after |-> r.bc.unconfirmed_data]

\* BlockChain.chain_is_valid.  elem_type is the Python type of the elements
\* of chain: "Block" objects (records with the attribute flags has_hashcode
\* and has_this_hash) or "dict" values decoded from JSON, on which the
\* attribute access of line 149 raises AttributeError.  The result is the
\* value returned (or the exception raised) and the elements as the walk
\* leaves them.
RECURSIVE chain_walk(_, _, _)
chain_walk(chain, i, previous_hash) ==
    IF i > Len(chain) THEN [ret |-> "True", chain |-> chain]
    ELSE LET block == chain[i]
         IN  IF ~block.has_hashcode
             THEN [ret |-> "AttributeError", chain |-> chain]
             ELSE LET block_hash == block.hashcode
                      deleted == [chain EXCEPT ![i].has_hashcode = FALSE]
                  IN  IF ~is_valid_proof(block, block_hash)
                         \/ ~(previous_hash # block.previous_hash)
                      THEN [ret |-> "False", chain |-> deleted]
                      ELSE chain_walk([deleted EXCEPT ![i].this_hash = block_hash,
                                                      ![i].has_this_hash = TRUE],
                                      i + 1, block_hash)

chain_is_valid(chain, elem_type) ==
    IF elem_type = "dict"
    THEN IF chain = <<>> THEN [ret |-> "True", chain |-> chain]
         ELSE [ret |-> "AttributeError", chain |-> chain]
    ELSE chain_walk(chain, 1, Sentinel)

\* A Block object as Python holds it: the fields and which attributes exist.
PyBlock(b) ==
    [index |-> b.index, content |-> b.content, previous_hash |-> b.previous_hash,
     timestamp |-> b.timestamp, nonce |-> b.nonce, hashcode |-> b.hashcode,
     has_hashcode |-> TRUE, this_hash |-> <<>>, has_this_hash |-> FALSE]

\* ----------------------------------------------------------------- helpers
\* consensus(): the loop over the peers' responses, in iteration order.
\* found / longest_chain model the variable longest_chain (None or a list).
RECURSIVE consensus_loop(_, _, _, _, _)
consensus_loop(resps, i, found, longest_chain, max_len) ==
    IF i > Len(resps)
    THEN [exc |-> "", found |-> found, longest_chain |-> longest_chain]
    ELSE LET r == resps[i]
         IN  IF r.status = "down"
             THEN [exc |-> "ConnectionError", found |-> found, longest_chain |-> longest_chain]
             ELSE IF r.length > max_len
             THEN LET v == chain_is_valid(r.chain, "dict")
                  IN  IF v.ret = "AttributeError"
                      THEN [exc |-> "AttributeError", found |-> found,
                            longest_chain |-> longest_chain]
                      ELSE IF v.ret = "True"
                      THEN consensus_loop(resps, i + 1, TRUE, r.chain, r.length)
                      ELSE consensus_loop(resps, i + 1, found, longest_chain, max_len)
             ELSE consensus_loop(resps, i + 1, found, longest_chain, max_len)

\* consensus(): exc is the exception raised ("" for none), replace says
\* whether the global blockchain is rebound to longest_chain, ret the value
\* returned.
consensus(local_chain, resps) ==
    LET l == consensus_loop(resps, 1, FALSE, <<>>, Len(local_chain))
        truthy == l.found /\ l.longest_chain # <<>>
    IN  [exc |-> l.exc, replace |-> l.exc = "" /\ truthy,
         longest_chain |-> l.longest_chain,
         ret |-> IF l.exc # "" THEN l.exc ELSE IF truthy THEN "True" ELSE "False"]

\* create_chain_from_dump: the loop body for the 0-based position index.
RECURSIVE dump_loop(_, _, _, _)
dump_loop(bchain, chain_dump, index, calls) ==
    IF index >= Len(chain_dump)
    THEN [exc |-> "", bc |-> bchain, calls |-> calls]
    ELSE LET block_info == chain_dump[index + 1]
             block == Block(index, block_info.content, block_info.previous_hash,
                            block_info.timestamp, 0)
         IN  IF index > 0
             THEN LET r == add_block(bchain, block, block_info.hashcode)
                      c == Append(calls, AddCall("create_chain_from_dump", bchain, block,
                                                 block_info.hashcode))
                  IN  IF ~r.ret
                      THEN [exc |-> "Exception", bc |-> bchain, calls |-> c]
                      ELSE dump_loop(r.bc, chain_dump, index + 1, c)
             ELSE dump_loop([bchain EXCEPT !.chain = Append(bchain.chain, block)],
                            chain_dump, index + 1, calls)

create_chain_from_dump(chain_dump) == dump_loop(NewBlockChain, chain_dump, 0, <<>>)

\* ------------------------------------------------------------ environment
\* What the peers can send.  A peer runs the same program: its ledger starts
\* with its own genesis block and grows by mine(); block number k of a peer
\* carries the single record 100 + k.
RECURSIVE PeerLedger(_, _)
PeerLedger(timestamp, n) ==
    IF n <= 1 THEN <<GenesisBlock(timestamp)>>
    ELSE LET c == PeerLedger(timestamp, n - 1)
         IN  Append(c, proof_of_work(Block(Last(c).index + 1, <<100 + n>>,
                                           Last(c).hashcode, timestamp, 0), Difficulty))

\* get_chain: the list of the blocks' __dict__
Dump(chain) == [i \in 1..Len(chain) |-> Fields(chain[i])]

\* a dump of two blocks or more with a record slipped into its last but one
\* block: that block's stored hash is no longer the hash of its fields
Tamper(dump) ==
    [dump EXCEPT ![Len(dump) - 1].content = Append(dump[Len(dump) - 1].content, 999)]

\* a ledger all of whose blocks were sealed with nonce 0: every block's
\* record is chosen so that the first hash tried has the leading zeros
LuckyTime == CHOOSE k \in 3..(HashMod + 2) : GenesisBlock(Float(k)).nonce = 0

LuckyBlock(prev) ==
    LET r == CHOOSE r \in 0..(HashMod - 1) :
                 StartsWithZeros(Block(prev.index + 1, <<200 + r>>, prev.hashcode,
                                       Float(LuckyTime), 0).hashcode, Difficulty)
    IN  Block(prev.index + 1, <<200 + r>>, prev.hashcode, Float(LuckyTime), 0)

LuckyLedger ==
    LET g == GenesisBlock(Float(LuckyTime))
    IN  <<g, LuckyBlock(g)>>

PeerSnapshots ==
    {Dump(PeerLedger(PeerTime, 2)), Dump(PeerLedger(PeerTime, MaxChain + 1)),
     Tamper(Dump(PeerLedger(PeerTime, MaxChain + 2)))}

PeerResponses ==
    {[status |-> "ok", chain |-> c, length |-> Len(c)] : c \in PeerSnapshots}
        \cup {[status |-> "ok", chain |-> <<>>, length |-> MaxChain + 1],
              [status |-> "down", chain |-> <<>>, length |-> 0]}

ChainDumps ==
    {Dump(PeerLedger(PeerTime, 1)), Dump(PeerLedger(PeerTime, 2)), Dump(LuckyLedger)}

\* ------------------------------------------------------------------- state
VARIABLES
    objs,          \* the BlockChain objects alive, by identity
    blockchain,    \* the module global: the identity of the node's ledger
    peers,         \* the module global: the set of peer addresses
    pc,            \* where each /mine request handler stands
    self,          \* the BlockChain object a running mine() is bound to
    new_block,     \* mine(): the candidate block
    snapshot,      \* history: the pending records when a running mine() began
    chain_length,  \* mine_unconfirmed_data(): the length read before consensus
    result,        \* mine_unconfirmed_data(): what mine() returned
    nrec,          \* the number of records submitted so far
    last,          \* history: the operation that ran last and its outcome
    vchain,        \* the list of Block objects handed to chain_is_valid
    vrets          \* what the calls of chain_is_valid on vchain returned

vars == <<objs, blockchain, peers, pc, self, new_block, snapshot, chain_length,
          result, nrec, last, vchain, vrets>>

Slots == 1..(MaxObjs + 1)

Null == [kind |-> "None", chain |-> <<>>, unconfirmed_data |-> <<>>]

Ledger == objs[blockchain]

\* An object no reference reaches is garbage: its slot is free again.
Referenced(o, g, p, s) == o = g \/ \E t \in Threads : p[t] \in {"pow", "add", "clear"} /\ s[t] = o

Collect(os, g, p, s) == [o \in Slots |-> IF Referenced(o, g, p, s) THEN os[o] ELSE Null]

\* identities are handed out in order and never reused
FreeSlot == blockchain + 1

Op(op, arg, ret, calls) == [op |-> op, arg |-> arg, ret |-> ret, calls |-> calls]

\* History: the step of mine() in thread t that ran last was the step named
\* op, and no other request handler has run since that mine() began.
Alone(t, op) ==
    /\ last.op = op
    /\ last.arg[1] = t
    /\ op = "mine_start" \/ last.arg[2]

Init ==
    /\ objs = [o \in Slots |-> IF o = 1 THEN NewBlockChain ELSE Null]
    /\ blockchain = 1
    /\ peers = {}
    /\ pc = [t \in Threads |-> "idle"]
    /\ self = [t \in Threads |-> 0]
    /\ new_block = [t \in Threads |-> NoBlock]
    /\ snapshot = [t \in Threads |-> <<>>]
    /\ chain_length = [t \in Threads |-> 0]
    /\ result = [t \in Threads |-> 0]
    /\ nrec = 0
    /\ last = Op("init", <<>>, "", <<>>)
    /\ vchain = <<>>
    /\ vrets = <<>>

\* -------------------------------------------------------------- operations
\* list.append on the list object that BlockChain o holds as unconfirmed_data:
\* every block whose content is that same object sees the new element.
ShareAppend(b, o, r) ==
    IF b.content_ref = o THEN [b EXCEPT !.content = Append(b.content, r)] ELSE b

\* BlockChain.add_data
add_data(bc, o, data) ==
    [bc EXCEPT !.unconfirmed_data = Append(bc.unconfirmed_data, data),
               !.chain = [i \in 1..Len(bc.chain) |-> ShareAppend(bc.chain[i], o, data)]]

\* self.unconfirmed_data = []: a new list object; the blocks that shared the
\* old one keep it to themselves.
Unshare(b, o) == IF b.content_ref = o THEN [b EXCEPT !.content_ref = 0] ELSE b

\* mutant of ClearPending: the pending list is kept
ClearPending_keep(bc, o) == bc

ClearPending(bc, o) ==
    [bc EXCEPT !.unconfirmed_data = <<>>,
               !.chain = [i \in 1..Len(bc.chain) |-> Unshare(bc.chain[i], o)]]

\* POST /add_new_data.  valid: both required fields are present.
AddNewData(valid) ==
    /\ Ledger.kind = "BlockChain"
    /\ IF ~valid
       THEN /\ last' = Op("add_new_data", <<>>, "404", <<>>)
            /\ UNCHANGED <<objs, new_block, nrec>>
       ELSE /\ nrec < MaxRecords
            /\ Len(Ledger.unconfirmed_data) < MaxPending
            /\ nrec' = nrec + 1
            /\ objs' = [objs EXCEPT ![blockchain] = add_data(Ledger, blockchain, nrec + 1)]
            /\ new_block' = [t \in Threads |-> ShareAppend(new_block[t], blockchain, nrec + 1)]
            /\ last' = Op("add_new_data", <<nrec + 1>>, "201", <<>>)
    /\ UNCHANGED <<blockchain, peers, pc, self, snapshot, chain_length, result, vchain,
                   vrets>>

\* mutant of nothing_to_mine: the candidate block is built from whatever the
\* pending list holds
nothing_to_mine_never(bc) == FALSE

\* line 98: not self.unconfirmed_data
nothing_to_mine(bc) == bc.unconfirmed_data = <<>>

\* GET /mine, lines 96-102 of mine(): read the tip, test the pending buffer,
\* construct the candidate block.  A new request is served by the free
\* handler thread of least number.
MineStart(t) ==
    /\ pc[t] = "idle"
    /\ \A u \in Threads : u < t => pc[u] # "idle"
    /\ Ledger.kind = "BlockChain"
    /\ LET current_last == last_block(Ledger)
       IN  IF nothing_to_mine(Ledger)
           THEN /\ last' = Op("mine", <<t>>, "No data to be added", <<>>)
                /\ UNCHANGED <<pc, self, new_block, snapshot>>
           ELSE /\ Len(Ledger.chain) < MaxChain
                /\ snapshot' = [snapshot EXCEPT ![t] = Ledger.unconfirmed_data]
                /\ new_block' = [new_block EXCEPT ![t] =
                       Block(current_last.index + 1, Ledger.unconfirmed_data,
                             current_last.hashcode, ImportTime, blockchain)]
                /\ self' = [self EXCEPT ![t] = blockchain]
                /\ pc' = [pc EXCEPT ![t] = "pow"]
                /\ last' = Op("mine_start", <<t>>, "", <<>>)
    /\ UNCHANGED <<objs, blockchain, peers, chain_length, result, nrec, vchain, vrets>>

\* line 103: new_block.proof_of_work(BlockChain.difficulty).  The loop reads
\* the stored hashcode first and the content list at every iteration, so a
\* record appended to the shared list before this step is hashed, and one
\* appended after it is not.
MineSeal(t) ==
    /\ pc[t] = "pow"
    /\ new_block' = [new_block EXCEPT ![t] = proof_of_work(new_block[t], Difficulty)]
    /\ pc' = [pc EXCEPT ![t] = "add"]
    /\ last' = Op("proof_of_work", <<t, Alone(t, "mine_start")>>, "", <<>>)
    /\ UNCHANGED <<objs, blockchain, peers, self, snapshot, chain_length, result, nrec,
                   vchain, vrets>>

\* line 104: self.add_block(new_block, new_block.hashcode), result ignored
MineAdd(t) ==
    /\ pc[t] = "add"
    /\ LET bc == objs[self[t]]
           r == add_block(bc, new_block[t], new_block[t].hashcode)
       IN  /\ objs' = [objs EXCEPT ![self[t]] = r.bc]
           /\ last' = Op("add_block", <<t, Alone(t, "proof_of_work")>>, "",
                         <<AddCall("mine", bc, new_block[t], new_block[t].hashcode)>>)
    /\ pc' = [pc EXCEPT ![t] = "clear"]
    /\ new_block' = [new_block EXCEPT ![t] = NoBlock]
    /\ UNCHANGED <<blockchain, peers, self, snapshot, chain_length, result, nrec, vchain,
                   vrets>>

\* lines 105-106 of mine() and 203-208 of mine_unconfirmed_data()
MineClear(t) ==
    /\ pc[t] = "clear"
    /\ Ledger.kind = "BlockChain"
    /\ LET o == self[t]
           cleared == ClearPending(objs[o], o)
           ret == last_block(cleared).index
           p == [pc EXCEPT ![t] = IF ret = 0 THEN "idle" ELSE "consensus"]
           os == [objs EXCEPT ![o] = cleared]
       IN  /\ pc' = p
           /\ objs' = Collect(os, blockchain, p, self)
           /\ new_block' = [u \in Threads |-> Unshare(new_block[u], o)]
           /\ result' = [result EXCEPT ![t] = ret]
           /\ chain_length' = [chain_length EXCEPT ![t] =
                                  IF ret = 0 THEN 0 ELSE Len(os[blockchain].chain)]
           /\ last' = Op("mine", <<t, Alone(t, "add_block"), snapshot[t], o>>,
                         IF ret = 0 THEN "No data to be added" ELSE "mined",
                         IF last.op = "add_block" /\ last.arg[1] = t THEN last.calls ELSE <<>>)
    /\ self' = [self EXCEPT ![t] = 0]
    /\ snapshot' = [snapshot EXCEPT ![t] = <<>>]
    /\ UNCHANGED <<blockchain, peers, nrec, vchain, vrets>>

\* lines 209-213: consensus() over the responses the peers give, in the
\* order the loop asks them, then the announcement of blockchain.last_block
\* when the chain length is what it was at line 208.  arg[2] of the history
\* record is the block announced (<<>> when none is).
MineConsensus(t, resps) ==
    /\ pc[t] = "consensus"
    /\ Ledger.kind = "BlockChain"
    /\ LET c == consensus(Ledger.chain, resps)
           g == IF c.replace THEN FreeSlot ELSE blockchain
           os == IF c.replace
                 THEN [objs EXCEPT ![g] = [kind |-> "list", chain |-> c.longest_chain,
                                           unconfirmed_data |-> <<>>]]
                 ELSE objs
           exc == IF c.exc # "" THEN c.exc
                  ELSE IF os[g].kind = "list" THEN "AttributeError" ELSE ""
           p == [pc EXCEPT ![t] = "idle"]
           announced == IF exc = "" /\ chain_length[t] = Len(os[g].chain)
                        THEN <<Fields(last_block(os[g]))>> ELSE <<>>
       IN  /\ blockchain' = g
           /\ objs' = Collect(os, g, p, self)
           /\ pc' = p
           /\ last' = Op("consensus", <<t, announced>>, IF exc # "" THEN exc ELSE c.ret,
                         <<[resps |-> resps, chain_before |-> Ledger.chain,
                            pending_before |-> Ledger.unconfirmed_data]>>)
    /\ UNCHANGED <<peers, self, new_block, snapshot, chain_length, result, nrec, vchain,
                   vrets>>

\* POST /add_block.  The third positional argument of Block is previous_hash:
\* the block is built from the request's index, content and timestamp, with
\* the default timestamp and nonce 0.
verify_and_add_block(block_info) ==
    Block(block_info.index, block_info.content, block_info.timestamp, ImportTime, 0)

\* a record that makes the first hash tried carry the leading zeros
Ground(index, previous_hash) ==
    CHOOSE r \in 300..(300 + HashMod - 1) :
        StartsWithZeros(Block(index, <<r>>, previous_hash, ImportTime, 0).hashcode, Difficulty)

\* announce_new_block: the body posted to a peer, json.dumps(block.__dict__)
announce_new_block(block) == Fields(block)

\* the block a peer whose ledger ends with tip seals by mine()
PeerBlock(tip) ==
    proof_of_work(Block(tip.index + 1, <<101>>, tip.hashcode, PeerTime, 0), Difficulty)

\* the requests a peer can post, given the tip of this node's ledger
BlockInfo(index, content, timestamp, hashcode) ==
    [index |-> index, content |-> content, timestamp |-> timestamp, hashcode |-> hashcode]

Claimed(index, content, timestamp) == Block(index, content, timestamp, ImportTime, 0).hashcode

BlockInfos(tip) ==
    LET h == tip.hashcode
        i == tip.index + 1
        g(j, prev) == <<Ground(j, prev)>>
        u(j, prev) == <<Ground(j, prev) + 1>>
    IN  { BlockInfo(i, g(i, h), h, Claimed(i, g(i, h), h)),
          BlockInfo(7, g(7, h), h, Claimed(7, g(7, h), h)),
          BlockInfo(i, u(i, h), h, Claimed(i, u(i, h), h)),
          BlockInfo(i, g(i, h), h, [k \in 1..Difficulty |-> 0]),
          BlockInfo(i, g(i, PeerTime), PeerTime, Claimed(i, g(i, PeerTime), PeerTime)),
          announce_new_block(PeerBlock(tip)) }

VerifyAndAdd(block_info) ==
    /\ Ledger.kind = "BlockChain"
    /\ Len(Ledger.chain) < MaxChain
    /\ LET block == verify_and_add_block(block_info)
           r == add_block(Ledger, block, block_info.hashcode)
       IN  /\ objs' = [objs EXCEPT ![blockchain] = r.bc]
           /\ last' = Op("verify_and_add", <<block_info>>, IF r.ret THEN "201" ELSE "400",
                         <<AddCall("verify_and_add", Ledger, block, block_info.hashcode)>>)
    /\ UNCHANGED <<blockchain, peers, pc, self, new_block, snapshot, chain_length, result,
                   nrec, vchain, vrets>>

\* POST /register of a peer not yet known.  The peers are named in the order
\* they first register.
RegisterNewPeers(node_add) ==
    /\ Ledger.kind = "BlockChain"
    /\ node_add \notin peers
    /\ node_add = "p2" => "p1" \in peers
    /\ IF node_add = ""
       THEN /\ last' = Op("register", <<node_add>>, "400", <<>>)
            /\ UNCHANGED peers
       ELSE /\ peers' = peers \cup {node_add}
            /\ last' = Op("register", <<node_add>>, "200", <<>>)
    /\ UNCHANGED <<objs, blockchain, pc, self, new_block, snapshot, chain_length, result,
                   nrec, vchain, vrets>>

\* POST /register_with: response is what the peer's /register answered
RegisterWith(node_add, response) ==
    /\ blockchain < MaxObjs
    /\ IF response.status_code = 200
       THEN LET d == create_chain_from_dump(response.chain)
            IN  IF d.exc # ""
                THEN /\ last' = Op("register_with", <<node_add, response>>, d.exc, d.calls)
                     /\ UNCHANGED <<objs, blockchain, peers>>
                ELSE /\ Len(d.bc.chain) <= MaxChain
                     /\ blockchain' = FreeSlot
                     /\ objs' = Collect([objs EXCEPT ![FreeSlot] = d.bc], FreeSlot, pc, self)
                     /\ peers' = peers \cup response.peers
                     /\ last' = Op("register_with", <<node_add, response>>, "200", d.calls)
       ELSE /\ last' = Op("register_with", <<node_add, response>>, "error", <<>>)
            /\ UNCHANGED <<objs, blockchain, peers>>
    /\ UNCHANGED <<pc, self, new_block, snapshot, chain_length, result, nrec, vchain,
                   vrets>>

RegisterResponses(node_add) ==
    {[status_code |-> 200, chain |-> d, peers |-> {node_add}] : d \in ChainDumps}
        \cup {[status_code |-> 500, chain |-> <<>>, peers |-> {}]}

\* The node with the /mine requests served by the handler threads T and every
\* other request served as it arrives.
NextFor(T) ==
    \/ \E valid \in BOOLEAN : AddNewData(valid)
    \/ \E t \in T : MineStart(t)
    \/ \E t \in T : MineSeal(t)
    \/ \E t \in T : MineAdd(t)
    \/ \E t \in T : MineClear(t)
    \/ \E t \in T : \E resps \in [1..Cardinality(peers) -> PeerResponses] :
           MineConsensus(t, resps)
    \/ \E block_info \in BlockInfos(last_block(Ledger)) : VerifyAndAdd(block_info)
    \/ \E node_add \in PeerAddrs \cup {""} : RegisterNewPeers(node_add)
    \/ \E response \in RegisterResponses("p1") : RegisterWith("p1", response)

\* One /mine request in flight at a time, interleaved with all other requests.
Next == NextFor({1})

Spec == Init /\ [][Next]_vars

\* Every handler thread may serve a /mine request: the program takes no lock
\* and a threaded server runs the handlers of concurrent requests in parallel.
NextThreads == NextFor(Threads)

SpecThreads == Init /\ [][NextThreads]_vars

\* ------------------------------------------------- chain_is_valid on its own
\* The lists of Block objects chain_is_valid is applied to: ledgers of up to
\* MaxValidate blocks, each block sealed on its predecessor ("ok"), or carrying
\* a stored hash that is not the hash of its fields ("badhash"), or a
\* previous_hash that is not its predecessor's hash ("badlink"), or a hash
\* without the leading zeros ("nopow").
Variants == {"ok", "badhash", "badlink", "nopow"}

VBlock(previous_hash, index, v) ==
    LET b == Block(index, IF index = 0 THEN <<>> ELSE <<100 + index>>,
                   IF v = "badlink" THEN <<1>> ELSE previous_hash, PeerTime, 0)
    IN  CASE v = "nopow" ->
                 IF StartsWithZeros(b.hashcode, Difficulty) THEN pow_step(b) ELSE b
          [] v = "badhash" ->
                 [proof_of_work(b, Difficulty) EXCEPT !.hashcode = [k \in 1..Difficulty |-> 0]]
          [] OTHER -> proof_of_work(b, Difficulty)

RECURSIVE VChain(_)
VChain(vs) ==
    IF vs = <<>> THEN <<>>
    ELSE LET c == VChain(SubSeq(vs, 1, Len(vs) - 1))
             prev == IF c = <<>> THEN Sentinel ELSE Last(c).hashcode
         IN  Append(c, PyBlock(VBlock(prev, Len(vs) - 1, Last(vs))))

ValidateInputs == {VChain(vs) : vs \in UNION {[1..n -> Variants] : n \in 0..MaxValidate}}

InitValidate ==
    /\ objs = [o \in Slots |-> IF o = 1 THEN NewBlockChain ELSE Null]
    /\ blockchain = 1
    /\ peers = {}
    /\ pc = [t \in Threads |-> "idle"]
    /\ self = [t \in Threads |-> 0]
    /\ new_block = [t \in Threads |-> NoBlock]
    /\ snapshot = [t \in Threads |-> <<>>]
    /\ chain_length = [t \in Threads |-> 0]
    /\ result = [t \in Threads |-> 0]
    /\ nrec = 0
    /\ last = Op("init", <<>>, "", <<>>)
    /\ vchain \in ValidateInputs
    /\ vrets = <<>>

\* BlockChain.chain_is_valid(vchain), called again on the same list
Validate ==
    /\ Len(vrets) < MaxCalls
    /\ LET r == chain_is_valid(vchain, "Block")
       IN  /\ vchain' = r.chain
           /\ vrets' = Append(vrets, r.ret)
           /\ last' = Op("chain_is_valid", <<vchain>>, r.ret, <<>>)
    /\ UNCHANGED <<objs, blockchain, peers, pc, self, new_block, snapshot, chain_length,
                   result, nrec>>

NextValidate == Validate

SpecValidate == InitValidate /\ [][NextValidate]_vars

\* ================================================================== claims
Sealed(b) ==
    /\ StartsWithZeros(compute_hash(b), Difficulty)
    /\ compute_hash(b) = b.hashcode

\* C1: every block held in the node's ledger is sealed: the hash recomputed
\* from its current fields starts with Difficulty zeros and equals its stored
\* hash.
C1_EveryBlockSealed ==
    Ledger.kind = "BlockChain" =>
        \A i \in 1..Len(Ledger.chain) : Sealed(Ledger.chain[i])

\* C2: the ledger is hash-linked: from the second block on, previous_hash is
\* the stored hash of the block before.
C2_HashLinked ==
    Ledger.kind = "BlockChain" =>
        \A i \in 2..Len(Ledger.chain) :
            Ledger.chain[i].previous_hash = Ledger.chain[i - 1].hashcode

\* C3: the ledger is never empty, starts with a block of index 0, and the
\* block at position i (counted from 0) has index i.
C3_IndexIsPosition ==
    Ledger.kind = "BlockChain" =>
        /\ Len(Ledger.chain) >= 1
        /\ \A i \in 1..Len(Ledger.chain) : Ledger.chain[i].index = i - 1

\* The ledger a recorded add_block call acted on, as the state holds it right
\* after the call, for the calls made on a ledger the state holds.
CallOnLedger == last.op = "verify_and_add"

CallOnSelf == last.op = "add_block"

LedgerAfter == IF CallOnSelf THEN objs[self[last.arg[1]]] ELSE Ledger

Tip(c) == Last(c.chain_before).hashcode

Rejected(c) ==
    /\ c.ret = FALSE
    /\ c.chain_after = c.chain_before
    /\ c.pending_after = c.pending_before
    /\ (CallOnLedger \/ CallOnSelf) =>
           /\ LedgerAfter.chain = c.chain_before
           /\ LedgerAfter.unconfirmed_data = c.pending_before
    /\ CallOnLedger => last.ret = "400"

\* C4: add_block rejects every block whose previous_hash is not the hash of
\* the ledger's last block, whatever its proof of work: it returns False and
\* leaves the blocks and the pending records as they were.
C4_StaleBlockRejected ==
    \A k \in 1..Len(last.calls) :
        (last.op \in {"verify_and_add", "add_block", "register_with"}
           /\ last.calls[k].block.previous_hash # Tip(last.calls[k]))
        => Rejected(last.calls[k])

\* C4 witness: a block with a valid proof of work and a previous_hash that is
\* not the tip's hash was posted and turned down.
C4_Witness ==
    /\ last.op = "verify_and_add"
    /\ last.calls[1].block.previous_hash # Tip(last.calls[1])
    /\ is_valid_proof(last.calls[1].block, last.calls[1].proof)
    /\ last.ret = "400"

Admissible(c) ==
    /\ c.block.previous_hash = Tip(c)
    /\ StartsWithZeros(c.proof, Difficulty)
    /\ c.proof = compute_hash(c.block)

Appended(c) ==
    /\ c.ret = TRUE
    /\ Len(c.chain_after) = Len(c.chain_before) + 1
    /\ SubSeq(c.chain_after, 1, Len(c.chain_before)) = c.chain_before
    /\ Fields(Last(c.chain_after)) = [c.block EXCEPT !.hashcode = c.proof]
    /\ c.pending_after = c.pending_before
    /\ (CallOnLedger \/ CallOnSelf) => LedgerAfter.chain = c.chain_after
    /\ CallOnLedger => last.ret = "201"

\* C5: add_block appends the block as the new last block exactly when its
\* previous_hash is the tip's hash and the claimed hash starts with Difficulty
\* zeros and is the hash recomputed from the block's fields; in every other
\* case it returns False and the ledger is unchanged.
C5_AppendIffAdmissible ==
    \A k \in 1..Len(last.calls) :
        last.op \in {"verify_and_add", "add_block", "register_with"} =>
            IF Admissible(last.calls[k]) THEN Appended(last.calls[k])
            ELSE Rejected(last.calls[k])

\* C5 witness: a posted block was appended to the ledger.
C5_Witness ==
    /\ last.op = "verify_and_add"
    /\ Admissible(last.calls[1])
    /\ last.ret = "201"
    /\ Len(Ledger.chain) = Len(last.calls[1].chain_before) + 1

\* The peers' answers of a recorded consensus run and the local chain it
\* started from.
Run == last.calls[1]

AllAnswered == \A i \in 1..Len(Run.resps) : Run.resps[i].status = "ok"

\* validate as the ledger design states it, on a snapshot: every block after
\* the first carries a proof of work, a stored hash that is the hash of its
\* fields, and the stored hash of its predecessor as previous_hash.
ValidSnapshot(chain) ==
    \A i \in 2..Len(chain) :
        /\ Sealed(chain[i])
        /\ chain[i].previous_hash = chain[i - 1].hashcode

Qualifies(r) ==
    /\ r.status = "ok"
    /\ Len(r.chain) > Len(Run.chain_before)
    /\ ValidSnapshot(r.chain)

Blocks(chain) == [i \in 1..Len(chain) |-> Fields(chain[i])]

\* C6: resolve never shortens the local ledger, replaces it only by a
\* strictly longer snapshot that passes validate, and when no snapshot
\* qualifies leaves the ledger as it is and reports "no change".
C6_ResolveOnlyLongerValid ==
    (last.op = "consensus" /\ AllAnswered) =>
        /\ Len(Ledger.chain) >= Len(Run.chain_before)
        /\ Blocks(Ledger.chain) # Blocks(Run.chain_before) =>
               \E i \in 1..Len(Run.resps) :
                   Qualifies(Run.resps[i]) /\ Blocks(Ledger.chain) = Run.resps[i].chain
        /\ (\A i \in 1..Len(Run.resps) : ~Qualifies(Run.resps[i])) =>
               /\ Blocks(Ledger.chain) = Blocks(Run.chain_before)
               /\ last.ret = "False"

\* C7: when some snapshot is valid and strictly longer than the local chain,
\* resolve makes the longest such snapshot the local ledger.
C7_ResolveTakesLongestValid ==
    (last.op = "consensus" /\ AllAnswered) =>
        \A i \in 1..Len(Run.resps) :
            (/\ Qualifies(Run.resps[i])
             /\ \A j \in 1..Len(Run.resps) :
                    Qualifies(Run.resps[j]) => Len(Run.resps[j].chain) <= Len(Run.resps[i].chain))
            => Blocks(Ledger.chain) = Run.resps[i].chain

\* C8: a snapshot that fails validate is discarded even when it is the
\* longest; resolve goes on with the other snapshots and raises nothing.
C8_TamperedSnapshotDiscarded ==
    (/\ last.op = "consensus"
     /\ AllAnswered
     /\ \E i \in 1..Len(Run.resps) : ~ValidSnapshot(Run.resps[i].chain))
    => /\ last.ret \in {"True", "False"}
       /\ \A i \in 1..Len(Run.resps) :
              ~ValidSnapshot(Run.resps[i].chain) => Blocks(Ledger.chain) # Run.resps[i].chain

\* validate as claim C9 states it, on the fields of a list of blocks
LinkedAndProved(chain) ==
    \A i \in 2..Len(chain) :
        /\ StartsWithZeros(compute_hash(chain[i]), Difficulty)
        /\ chain[i].previous_hash = chain[i - 1].hashcode

\* C9: validate returns true exactly when every block after the first has a
\* recomputed hash with the proof of work and the hash of the block before it
\* as previous_hash; the first block is accepted as it is.
C9_ValidateIffLinkedAndProved ==
    (last.op = "chain_is_valid" /\ Len(vrets) = 1) =>
        (last.ret = "True" <=> LinkedAndProved(last.arg[1]))

\* C10: validate leaves the blocks of its argument as they were, and a second
\* validate of the same list returns what the first returned.
C10_ValidateIdempotentPure ==
    last.op = "chain_is_valid" =>
        /\ vchain = last.arg[1]
        /\ Len(vrets) >= 2 => vrets[2] = vrets[1]

\* A mine() that has just returned: last.arg is the thread, whether no other
\* request handler ran while it was running, the pending records it began
\* with and the BlockChain object it ran on; last.calls holds its add_block call when the clearing of the pending
\* list followed that call at once.
MineDone == last.op = "mine" /\ Len(last.arg) = 4

MineDoneAlone == MineDone /\ last.arg[2]

C12_EmptyMineIsNoOp ==
    [][\A t \in Threads :
           (/\ pc[t] = "idle"
            /\ Ledger.kind = "BlockChain"
            /\ Ledger.unconfirmed_data = <<>>
            /\ last'.op \in {"mine", "mine_start"}
            /\ last'.arg[1] = t)
           => /\ last'.ret = "No data to be added"
              /\ UNCHANGED <<objs, blockchain, peers, pc, self, new_block, chain_length,
                             result, nrec>>]_vars

\* C12 witness: mine() on the genesis-only ledger with nothing pending.
C12_Witness ==
    /\ last.op = "mine"
    /\ Len(last.arg) = 1
    /\ last.ret = "No data to be added"
    /\ Len(Ledger.chain) = 1
    /\ Ledger.unconfirmed_data = <<>>
    /\ \A t \in Threads : pc[t] = "idle"

\* a mine() between its reading of the tip (line 96) and its append (line 104)
Mining(t) == pc[t] \in {"pow", "add"}

\* C13: at most one mine() is in flight at any time: with the request
\* handlers running concurrently, no two of them are both between reading the
\* tip and appending their block.
C13_OneMineInFlight ==
    \A t, u \in Threads : (Mining(t) /\ Mining(u)) => t = u

\* C14: after a local mine the new block is announced exactly when the
\* consensus run between the mine and the announcement left the length of the
\* local chain as it was, never when the chain was replaced, and the /mine
\* handler ends without an error either way.
C14_AnnounceIffLengthUnchanged ==
    last.op = "consensus" =>
        /\ last.ret \in {"True", "False"}
        /\ last.arg[2] # <<>> <=> Len(Ledger.chain) = Len(Run.chain_before)
        /\ Blocks(Ledger.chain) # Blocks(Run.chain_before) => last.arg[2] = <<>>

\* the answers of the peers that answered
IsOk(r) == r.status = "ok"

Available(resps) == SelectSeq(resps, IsOk)

\* C15: a peer that is down while the chains are gathered contributes no
\* candidate: consensus still ends, without an error, with the outcome the
\* other peers' snapshots alone give.
C15_DownPeerIsNoCandidate ==
    (last.op = "consensus" /\ \E i \in 1..Len(Run.resps) : Run.resps[i].status = "down") =>
        /\ last.ret \in {"True", "False"}
        /\ last.ret = consensus(Run.chain_before, Available(Run.resps)).ret

\* the ledger the mine() that has just returned ran on is still the node's
MineDoneOnLedger == MineDone /\ blockchain = last.arg[4]

InSeq(r, s) == \E i \in 1..Len(s) : s[i] = r

\* C16: mine() clears the pending list and reports a mined block only when
\* its own add_block call accepted the candidate: when that call returned
\* False the pending records are kept and no block is reported as mined.
C16_ClearOnlyWhenAccepted ==
    (MineDoneOnLedger /\ last.calls # <<>> /\ last.calls[1].ret = FALSE) =>
        /\ Ledger.unconfirmed_data = last.calls[1].pending_before
        /\ last.ret # "mined"

\* the records submitted while the mine() that has just returned was running
Latecomers == (Last(last.arg[3]) + 1)..nrec

\* C17: the candidate's content is a snapshot of the pending list taken when
\* mine() starts: a record submitted while mine() runs is in no block of the
\* ledger and is still pending once that mine() has returned, and the block
\* mine() appended holds the snapshot.
C17_PayloadIsSnapshot ==
    MineDoneOnLedger =>
        /\ \A r \in Latecomers :
               /\ InSeq(r, Ledger.unconfirmed_data)
               /\ \A i \in 1..Len(Ledger.chain) : ~InSeq(r, Ledger.chain[i].content)
        /\ (last.calls # <<>> /\ last.calls[1].ret) =>
               Last(Ledger.chain).content = last.arg[3]

\* C18: a block in a ledger is frozen: in every step, each block a ledger
\* held before the step is still there after it with the same index, content,
\* previous_hash, timestamp, nonce and stored hash.
C18_BlocksFrozen ==
    [][\A o \in Slots :
           (objs[o].kind = "BlockChain" /\ objs'[o].kind = "BlockChain") =>
               \A i \in 1..Len(objs[o].chain) :
                   /\ i <= Len(objs'[o].chain)
                   /\ Fields(objs'[o].chain[i]) = Fields(objs[o].chain[i])]_vars

\* a request body that carries every field of a sealed block
Announced(block_info) == "nonce" \in DOMAIN block_info /\ Sealed(block_info)

\* C19: a block sealed by a peer's mine() and posted with all its fields is
\* accepted by a node whose tip's hash is the block's previous_hash, and the
\* block appended has the fields of the sender's block.
C19_AnnouncedBlockRoundTrips ==
    (/\ last.op = "verify_and_add"
     /\ Announced(last.arg[1])
     /\ last.arg[1].previous_hash = Tip(last.calls[1]))
    => /\ last.ret = "201"
       /\ Len(Ledger.chain) = Len(last.calls[1].chain_before) + 1
       /\ Fields(Last(Ledger.chain)) = last.arg[1]

\* in how many places record r is: the pending list and the blocks
Places(r) ==
    (IF InSeq(r, Ledger.unconfirmed_data) THEN 1 ELSE 0)
        + Cardinality({i \in 1..Len(Ledger.chain) : InSeq(r, Ledger.chain[i].content)})

\* C20: while the ledger is the one the node began with and no mine() is
\* between building its candidate and clearing the pending list, every record
\* submitted is either pending or in the content of exactly one block.
C20_NoRecordLostOrDuplicated ==
    (blockchain = 1 /\ \A t \in Threads : pc[t] \in {"idle", "consensus"}) =>
        \A r \in 1..nrec : Places(r) = 1

====
